---- MODULE Spec2Model ----
(***************************************************************************)
(* Model of the racoons experiment orchestration                           *)
(* (racoons/models/classification.py) and of the feature/target selector   *)
(* (racoons/data/utils.py).                                                *)
(*                                                                         *)
(* One orchestration call is modelled from its entry to its return or to   *)
(* the exception that aborts it.  The external collaborators (build_model, *)
(* cross_validate_model, the plotting functions, update_report) are        *)
(* uninterpreted: a model is the record of the arguments it was built      *)
(* from, a report row is the record of the keyword arguments of the call   *)
(* that makes it, plus the provenance of the values the row carries.       *)
(***************************************************************************)
EXTENDS Integers, Sequences, FiniteSets, TLC

\* ------------------------------------------------------------------ bounds
MaxFeatures == 2
MaxTargets == 2
MaxEstimators == 2
AUCLevels == 2

\* ------------------------------------------------------------ the dataframe
\* Storage types of pandas columns.  "Int64" is the nullable extension type
\* pd.Int64Dtype(), "int64" the numpy type; "category_bool" is a categorical
\* column whose categories are booleans, "category" any other categorical.
Dtypes ==
    {"float64", "int64", "Int64", "category", "category_bool", "bool", "object"}

\* The input dataframe: one column of every storage type.
df ==
    [c \in {"c_float64", "c_int64", "c_Int64", "c_category",
            "c_category_bool", "c_bool", "c_object"} |->
        CASE c = "c_float64" -> "float64"
          [] c = "c_int64" -> "int64"
          [] c = "c_Int64" -> "Int64"
          [] c = "c_category" -> "category"
          [] c = "c_category_bool" -> "category_bool"
          [] c = "c_bool" -> "bool"
          [] c = "c_object" -> "object"]

Columns == DOMAIN df

\* Names of the estimator registry and the class each name stands for.
EstimatorNames == {"logistic_regression", "random_forest"}

ClassName(estimator) ==
    CASE estimator = "logistic_regression" -> "LogisticRegression"
      [] estimator = "random_forest" -> "RandomForestClassifier"

FeatureSelectionMethods == {"None", "lasso"}

\* ----------------------------------------------------------------- helpers
SeqsUpTo(S, n) == UNION {[1..k -> S] : k \in 0..n}

NoDuplicates(s) == \A i, j \in DOMAIN s : s[i] = s[j] => i = j

ColumnLists(n) == {s \in SeqsUpTo(Columns, n) : NoDuplicates(s)}

Range(s) == {s[i] : i \in DOMAIN s}

IsPrefix(s, t) == Len(s) <= Len(t) /\ SubSeq(t, 1, Len(s)) = s

\* ------------------------------------------------- pandas dtype predicates
is_float_dtype(dtype) == dtype \in {"float64"}

\* is_bool_dtype looks at the categories of a categorical dtype.
is_bool_dtype(dtype) == dtype \in {"bool", "category_bool"}

is_integer_dtype(dtype) == dtype \in {"int64", "Int64"}

IsCategoricalDtype(dtype) == dtype \in {"category", "category_bool"}

\* feature.dtype == np.int64: an extension dtype never equals a numpy type.
EqualsNpInt64(dtype) == dtype = "int64"

supported_scale_levels == {"numerical", "ordinal", "categorical"}

\* ------------------------------------------------------------ the selector
get_scale_level(dtype) ==
    IF is_float_dtype(dtype) THEN "numerical"
    ELSE IF EqualsNpInt64(dtype) THEN "ordinal"
    ELSE IF IsCategoricalDtype(dtype) THEN "categorical"
    ELSE "None"

FeatureAccepted(col) == get_scale_level(df[col]) \in supported_scale_levels

\* Mutant: the integer targets are forgotten.
TargetAccepted_BoolOnly(col) == is_bool_dtype(df[col])

TargetAccepted(col) == is_bool_dtype(df[col]) \/ is_integer_dtype(df[col])

ScaleLevelGroup(cols, level) ==
    SelectSeq(cols, LAMBDA c : FeatureAccepted(c) /\ get_scale_level(df[c]) = level)

features_and_targets_from_dataframe(fcols, tcols) ==
    [features |-> SelectSeq(fcols, FeatureAccepted),
     targets |-> SelectSeq(tcols, TargetAccepted),
     feature_scale_levels |->
        [numerical |-> ScaleLevelGroup(fcols, "numerical"),
         ordinal |-> ScaleLevelGroup(fcols, "ordinal"),
         categorical |-> ScaleLevelGroup(fcols, "categorical")]]

\* ----------------------------------------------- external collaborators
\* build_model: the model is known by the arguments it was built from and by
\* the parameters set on it afterwards.
build_model(scale_levels, sampling, feature_selection, estimator) ==
    [feature_scale_levels |-> scale_levels,
     sample_method |-> sampling,
     feature_selection_method |-> feature_selection,
     estimator |-> estimator,
     params |-> "default"]

set_params(m, params) == [m EXCEPT !.params = params]

\* cross_validate_model and metrics_from_cv_result: the metrics are known by
\* the model, the feature columns and the target column they come from.
cross_validate_model(m, X, y) == [model |-> m, X |-> X, y |-> y]

\* get_feature_importance(model)
get_feature_importance(m) == [importance_of |-> m]

\* model["estimator"].feature_names_in_ after the cross-validation on X
feature_names_in_(m, X) == [names_seen_by |-> m, fitted_on |-> X]

\* Mutant: the plot index is left out of the file name.
ArtifactPath_NoIndex(name, index, ext) == <<name, 0, ext>>

\* Files of the output folder.
ArtifactPath(name, index, ext) == <<name, index, ext>>

IterationArtifacts(index) ==
    {ArtifactPath("roc_auc", index, "png"),
     ArtifactPath("feature_importance", index, "png"),
     ArtifactPath("feature_importance", index, "csv")}

\* A report file of the output folder: absent until it is first written.
Absent == [exists |-> FALSE, rows |-> <<>>]

\* DataFrame.to_excel / DataFrame.to_csv: the file holds the whole report.
WriteReport(report) == [exists |-> TRUE, rows |-> report]

\* Mutant: the new row is put in front of the report.
AppendRow_InFront(report, row) == <<row>> \o report

\* report_df.loc[len(report_df.index)] = row
AppendRow(report, row) == Append(report, row)

\* ------------------------------------------------------------------- state
VARIABLES
    strategy,                  \* the function called: "A" multivariate, "B" grid
                               \* search, "C" univariate, "selector" the selector
    feature_cols,              \* argument
    target_cols,               \* argument
    estimators,                \* argument
    feature_selection_method,  \* argument (A, B); local set to None (C)
    sample_method,             \* argument
    pc,                        \* position in the call
    error,                     \* the exception that aborted the call
    features,                  \* accepted feature columns
    targets,                   \* accepted target columns
    feature_scale_levels,      \* scale-level groups of the accepted features
    fi,                        \* position of the loop over feature_cols (C)
    ti,                        \* position of the loop over targets
    ei,                        \* position of the loop over estimators
    report_df,                 \* the report, a sequence of rows
    plot_index,
    xlsx,                      \* report.xlsx in the output folder
    csv,                       \* report.csv in the output folder
    artifacts,                 \* plot and importance files of the output folder
    cv_df,                     \* ranking of the initial cross-validation (B)
    model,                     \* local variable model
    best_cv_estimator          \* local variable best_cv_estimator (B)

args ==
    <<strategy, feature_cols, target_cols, estimators, feature_selection_method,
      sample_method>>

selected == <<features, targets, feature_scale_levels>>

\* State of the DataSet constructions (racoons/data/dataset.py).
VARIABLES
    ds_entry,          \* "__init__": constructions on one dataset directory;
                       \* "_apply_scale_levels": the method on a loaded object
    self,              \* the attributes of the DataSet object
    scale_levels_arg,  \* the parameter scale_levels of __init__
    ds_pc,             \* position in the construction
    ds_error,          \* the exception that ended the construction
    lookup_file,       \* scale_levels.csv beside the dataset
    lookup_io          \* reads and writes of scale_levels.csv

dataset_vars ==
    <<ds_entry, self, scale_levels_arg, ds_pc, ds_error, lookup_file, lookup_io>>

\* State of the calls of a @configurable function (racoons/config.py).
VARIABLES
    caller_config,     \* config[fname][qualname] as the caller wrote it
    conf,              \* config[fname][qualname] of the dict the calls share
    kwargs,            \* keyword arguments of the last call
    received,          \* keyword arguments func was called with
    calls              \* number of calls made

config_vars == <<caller_config, conf, kwargs, received, calls>>

\* State of a sequence of orchestration calls with one output path.
VARIABLES
    now,               \* the clock, in ticks
    output_path,       \* the folders under the output path and who wrote them
    runs               \* the calls made so far

run_vars == <<now, output_path, runs>>

orchestration_vars ==
    <<strategy, feature_cols, target_cols, estimators, feature_selection_method,
      sample_method, pc, error, features, targets, feature_scale_levels, fi, ti,
      ei, report_df, plot_index, xlsx, csv, artifacts, cv_df, model,
      best_cv_estimator>>

\* What an orchestration call leaves alone.
outside_orchestration == <<dataset_vars, config_vars, run_vars>>

vars == <<orchestration_vars, dataset_vars, config_vars, run_vars>>

NoModel == [unbound |-> TRUE]

\* An attribute that was never assigned: reading it raises AttributeError.
Unset == [set |-> FALSE]

Bound(value) == [set |-> TRUE, value |-> value]

\* A keyword that a dict does not hold.
NoKeywords == [k \in {"configurable_kwarg", "msg", "config"} |-> "absent"]

\* No @configurable function is being called.
ConfigIdle ==
    /\ caller_config = NoKeywords
    /\ conf = NoKeywords
    /\ kwargs = NoKeywords
    /\ received = NoKeywords
    /\ calls = 0

\* No sequence of calls with one output path is under way.
RunsIdle ==
    /\ now = 0
    /\ output_path = {}
    /\ runs = <<>>

\* No DataSet is being constructed.
DataSetIdle ==
    /\ ds_entry = "none"
    /\ self = Unset
    /\ scale_levels_arg = Unset
    /\ ds_pc = "idle"
    /\ ds_error = "none"
    /\ lookup_file = Absent
    /\ lookup_io = [read |-> FALSE, wrote |-> FALSE, written |-> 0]

NoScaleLevels == [numerical |-> <<>>, ordinal |-> <<>>, categorical |-> <<>>]

\* Values of the mean AUC of a cross-validation.
AUCValues == 1..AUCLevels

\* Columns an orchestration call is asked to use: as features a supported and
\* an unsupported column, as targets two supported columns and an unsupported
\* one.  A direct call of the selector is asked for any columns.
OrchestratorFeaturePool == {"c_float64", "c_object"}

OrchestratorTargetPool == {"c_bool", "c_int64", "c_object"}

FeatureRequests(entry) ==
    IF entry = "selector"
    THEN ColumnLists(MaxFeatures)
    ELSE {s \in ColumnLists(MaxFeatures) : Range(s) \subseteq OrchestratorFeaturePool}

TargetRequests(entry) ==
    IF entry = "selector"
    THEN ColumnLists(MaxTargets)
    ELSE {s \in ColumnLists(MaxTargets) : Range(s) \subseteq OrchestratorTargetPool}

EstimatorRequests(entry) ==
    IF entry = "selector" THEN {<<>>} ELSE SeqsUpTo(EstimatorNames, MaxEstimators)

Init ==
    /\ strategy \in {"A", "B", "C", "selector"}
    /\ feature_cols \in FeatureRequests(strategy)
    /\ target_cols \in TargetRequests(strategy)
    /\ estimators \in EstimatorRequests(strategy)
    /\ feature_selection_method \in
            IF strategy \in {"A", "B"} THEN FeatureSelectionMethods ELSE {"None"}
    /\ sample_method = "smote"
    /\ pc = "call"
    /\ error = "none"
    /\ features = <<>>
    /\ targets = <<>>
    /\ feature_scale_levels = NoScaleLevels
    /\ fi = 1
    /\ ti = 1
    /\ ei = 1
    /\ report_df = <<>>
    /\ plot_index = 0
    /\ xlsx = Absent
    /\ csv = Absent
    /\ artifacts = {}
    /\ cv_df = <<>>
    /\ model = NoModel
    /\ best_cv_estimator = "none"
    /\ DataSetIdle
    /\ ConfigIdle
    /\ RunsIdle

\* ------------------------------------------ a direct call of the selector
S_Classify ==
    /\ UNCHANGED outside_orchestration
    /\ strategy = "selector"
    /\ pc = "call"
    /\ LET r == features_and_targets_from_dataframe(feature_cols, target_cols)
       IN /\ features' = r.features
          /\ targets' = r.targets
          /\ feature_scale_levels' = r.feature_scale_levels
    /\ pc' = "done"
    /\ UNCHANGED <<args, error, fi, ti, ei, report_df, plot_index, xlsx, csv,
                   artifacts, cv_df, model, best_cv_estimator>>

\* ------------------------------------------------ Strategy A: multivariate
\* The row of one iteration: the keyword arguments of update_report, and the
\* cross-validation and the models its metrics and artifacts come from.
\* The samples of the columns that can be targets: three rows, the integer
\* columns with the values 0 and 1.
samples ==
    [c \in {"c_bool", "c_int64", "c_Int64"} |->
        IF c = "c_bool" THEN <<TRUE, FALSE, FALSE>> ELSE <<0, 1, 1>>]

\* ~series: the logical negation of a boolean, the bitwise complement of an
\* integer.
invert(dtype, x) == IF dtype = "bool" THEN ~x ELSE 0 - x - 1

\* Series.sum(): a boolean counts as 0 or 1.
RECURSIVE SeriesSum(_, _)
SeriesSum(dtype, s) ==
    IF s = <<>>
    THEN 0
    ELSE (IF dtype = "bool" THEN (IF Head(s) THEN 1 ELSE 0) ELSE Head(s))
         + SeriesSum(dtype, Tail(s))

\* (~df[target]).sum()
negative_samples(target) ==
    SeriesSum(df[target],
              [i \in DOMAIN samples[target] |-> invert(df[target], samples[target][i])])

\* (df[target]).sum()
positive_samples(target) == SeriesSum(df[target], samples[target])

RowA(target, estimator, m, index) ==
    [target |-> target,
     negative_samples |-> negative_samples(target),
     positive_samples |-> positive_samples(target),
     features |-> feature_cols,
     estimator_name |-> ClassName(estimator),
     metrics |-> cross_validate_model(m, feature_cols, target),
     roc_plot_path |-> ArtifactPath("roc_auc", index, "png"),
     feature_importance_csv |-> ArtifactPath("feature_importance", index, "csv"),
     feature_importance_plot_path |-> ArtifactPath("feature_importance", index, "png"),
     feature_importance |-> get_feature_importance(m),
     sampling |-> sample_method,
     feature_selection |-> feature_selection_method,
     selected_features |-> feature_names_in_(m, feature_cols),
     best_params |-> "absent"]

\* Output folder, selector, empty report, plot_index = 0.
A_Setup ==
    /\ UNCHANGED outside_orchestration
    /\ strategy = "A"
    /\ pc = "call"
    /\ LET r == features_and_targets_from_dataframe(feature_cols, target_cols)
       IN /\ features' = r.features
          /\ targets' = r.targets
          /\ feature_scale_levels' = r.feature_scale_levels
    /\ report_df' = <<>>
    /\ plot_index' = 0
    /\ ti' = 1
    /\ pc' = "targets"
    /\ UNCHANGED <<args, error, fi, ei, xlsx, csv, artifacts, cv_df, model,
                   best_cv_estimator>>

\* for target in targets: the next target starts its loop over estimators.
A_NextTarget ==
    /\ UNCHANGED outside_orchestration
    /\ strategy = "A"
    /\ pc = "targets"
    /\ ti <= Len(targets)
    /\ ei' = 1
    /\ pc' = "estimators"
    /\ UNCHANGED <<args, selected, error, fi, ti, report_df, plot_index, xlsx,
                   csv, artifacts, cv_df, model, best_cv_estimator>>

\* Mutant: the report is written to both files after every row.
A_Iteration_WritesReport ==
    /\ UNCHANGED outside_orchestration
    /\ strategy = "A"
    /\ pc = "estimators"
    /\ ei <= Len(estimators)
    /\ LET m == build_model(feature_scale_levels, sample_method,
                            feature_selection_method, estimators[ei])
           report == Append(report_df, RowA(targets[ti], estimators[ei], m, plot_index))
       IN /\ model' = m
          /\ report_df' = report
          /\ xlsx' = WriteReport(report)
          /\ csv' = WriteReport(report)
    /\ artifacts' = artifacts \cup IterationArtifacts(plot_index)
    /\ plot_index' = plot_index + 1
    /\ ei' = ei + 1
    /\ UNCHANGED <<args, selected, pc, error, fi, ti, cv_df, best_cv_estimator>>

\* One iteration of the inner loop: build, cross-validate, plot, append.
A_Iteration ==
    /\ UNCHANGED outside_orchestration
    /\ strategy = "A"
    /\ pc = "estimators"
    /\ ei <= Len(estimators)
    /\ LET m == build_model(feature_scale_levels, sample_method,
                            feature_selection_method, estimators[ei])
       IN /\ model' = m
          /\ report_df' =
                AppendRow(report_df, RowA(targets[ti], estimators[ei], m, plot_index))
    /\ artifacts' = artifacts \cup IterationArtifacts(plot_index)
    /\ plot_index' = plot_index + 1
    /\ ei' = ei + 1
    /\ UNCHANGED <<args, selected, pc, error, fi, ti, xlsx, csv, cv_df,
                   best_cv_estimator>>

\* build_model, cross_validate_model or a plotting call raises: the exception
\* leaves the call.  The ROC image may already be saved.
A_IterationFails ==
    /\ UNCHANGED outside_orchestration
    /\ strategy = "A"
    /\ pc = "estimators"
    /\ ei <= Len(estimators)
    /\ \E saved \in {{}, {ArtifactPath("roc_auc", plot_index, "png")}} :
            artifacts' = artifacts \cup saved
    /\ pc' = "aborted"
    /\ error' = "IterationFailure"
    /\ UNCHANGED <<args, selected, fi, ti, ei, report_df, plot_index, xlsx, csv,
                   cv_df, model, best_cv_estimator>>

\* Mutant: report.csv is not written after the loop over estimators.
A_CheckpointTarget_XlsxOnly ==
    /\ UNCHANGED outside_orchestration
    /\ strategy = "A"
    /\ pc = "estimators"
    /\ ei > Len(estimators)
    /\ xlsx' = WriteReport(report_df)
    /\ ti' = ti + 1
    /\ pc' = "targets"
    /\ UNCHANGED <<args, selected, error, fi, ei, report_df, plot_index, csv,
                   artifacts, cv_df, model, best_cv_estimator>>

\* After the loop over estimators: the report is written to both files.
A_CheckpointTarget ==
    /\ UNCHANGED outside_orchestration
    /\ strategy = "A"
    /\ pc = "estimators"
    /\ ei > Len(estimators)
    /\ xlsx' = WriteReport(report_df)
    /\ csv' = WriteReport(report_df)
    /\ ti' = ti + 1
    /\ pc' = "targets"
    /\ UNCHANGED <<args, selected, error, fi, ei, report_df, plot_index,
                   artifacts, cv_df, model, best_cv_estimator>>

\* After the loop over targets: the report is written again and returned.
A_Return ==
    /\ UNCHANGED outside_orchestration
    /\ strategy = "A"
    /\ pc = "targets"
    /\ ti > Len(targets)
    /\ xlsx' = WriteReport(report_df)
    /\ csv' = WriteReport(report_df)
    /\ pc' = "done"
    /\ UNCHANGED <<args, selected, error, fi, ti, ei, report_df, plot_index,
                   artifacts, cv_df, model, best_cv_estimator>>

\* -------------------------------------- Strategy B: grid-search multivariate
\* Mutant: the ranking is sorted in ascending order.
SortValuesFirst_Ascending(ranking) ==
    {ranking[i].Model : i \in
        {k \in DOMAIN ranking : \A j \in DOMAIN ranking : ranking[k].AUC <= ranking[j].AUC}}

\* cv_df.sort_values(by="AUC", ascending=False)["Model"].iloc[0]: the sort is
\* pandas' default quicksort, which is not stable, so any row with the largest
\* AUC may come first.
SortValuesFirst(ranking) ==
    {ranking[i].Model : i \in
        {k \in DOMAIN ranking : \A j \in DOMAIN ranking : ranking[j].AUC <= ranking[k].AUC}}

\* The best parameters returned by hyper_parameter_optimization for a model.
hyper_parameter_optimization(m) == "best_params"

RowB(target, optimized_model, importance_model, params, index) ==
    [target |-> target,
     negative_samples |-> negative_samples(target),
     positive_samples |-> positive_samples(target),
     features |-> feature_cols,
     estimator_name |-> ClassName(optimized_model.estimator),
     metrics |-> cross_validate_model(optimized_model, feature_cols, target),
     roc_plot_path |-> ArtifactPath("roc_auc", index, "png"),
     feature_importance_csv |-> ArtifactPath("feature_importance", index, "csv"),
     feature_importance_plot_path |-> ArtifactPath("feature_importance", index, "png"),
     feature_importance |-> get_feature_importance(importance_model),
     sampling |-> sample_method,
     feature_selection |-> feature_selection_method,
     selected_features |-> feature_names_in_(optimized_model, feature_cols),
     best_params |-> params]

B_Setup ==
    /\ UNCHANGED outside_orchestration
    /\ strategy = "B"
    /\ pc = "call"
    /\ LET r == features_and_targets_from_dataframe(feature_cols, target_cols)
       IN /\ features' = r.features
          /\ targets' = r.targets
          /\ feature_scale_levels' = r.feature_scale_levels
    /\ report_df' = <<>>
    /\ plot_index' = 0
    /\ ti' = 1
    /\ pc' = "targets"
    /\ UNCHANGED <<args, error, fi, ei, xlsx, csv, artifacts, cv_df, model,
                   best_cv_estimator>>

\* for target in targets: an empty ranking, then the initial cross-validation.
B_NextTarget ==
    /\ UNCHANGED outside_orchestration
    /\ strategy = "B"
    /\ pc = "targets"
    /\ ti <= Len(targets)
    /\ cv_df' = <<>>
    /\ ei' = 1
    /\ pc' = "estimators"
    /\ UNCHANGED <<args, selected, error, fi, ti, report_df, plot_index, xlsx,
                   csv, artifacts, model, best_cv_estimator>>

\* Initial cross-validation of one estimator, feature selection left out.
B_InitialCV ==
    /\ UNCHANGED outside_orchestration
    /\ strategy = "B"
    /\ pc = "estimators"
    /\ ei <= Len(estimators)
    /\ model' = build_model(feature_scale_levels, sample_method, "None", estimators[ei])
    /\ \E mean_auc \in AUCValues :
            cv_df' = Append(cv_df, [Model |-> estimators[ei], AUC |-> mean_auc])
    /\ ei' = ei + 1
    /\ UNCHANGED <<args, selected, pc, error, fi, ti, report_df, plot_index, xlsx,
                   csv, artifacts, best_cv_estimator>>

B_InitialCVFails ==
    /\ UNCHANGED outside_orchestration
    /\ strategy = "B"
    /\ pc = "estimators"
    /\ ei <= Len(estimators)
    /\ pc' = "aborted"
    /\ error' = "IterationFailure"
    /\ UNCHANGED <<args, selected, fi, ti, ei, report_df, plot_index, xlsx, csv,
                   artifacts, cv_df, model, best_cv_estimator>>

\* The first row of the sorted ranking; .iloc[0] of an empty ranking raises.
B_SelectBest ==
    /\ UNCHANGED outside_orchestration
    /\ strategy = "B"
    /\ pc = "estimators"
    /\ ei > Len(estimators)
    /\ IF cv_df = <<>>
       THEN /\ pc' = "aborted"
            /\ error' = "IndexError"
            /\ UNCHANGED best_cv_estimator
       ELSE /\ best_cv_estimator' \in SortValuesFirst(cv_df)
            /\ pc' = "optimize"
            /\ UNCHANGED error
    /\ UNCHANGED <<args, selected, fi, ti, ei, report_df, plot_index, xlsx, csv,
                   artifacts, cv_df, model>>

\* Hyper-parameter optimization, the optimized model, its cross-validation,
\* the artifacts, the row and the write of the report.
B_OptimizeAndReport ==
    /\ UNCHANGED outside_orchestration
    /\ strategy = "B"
    /\ pc = "optimize"
    /\ LET grid_search_model ==
               build_model(feature_scale_levels, sample_method,
                           feature_selection_method, best_cv_estimator)
           best_params == hyper_parameter_optimization(grid_search_model)
           optimized_model ==
               set_params(build_model(feature_scale_levels, sample_method,
                                      feature_selection_method, best_cv_estimator),
                          best_params)
           report ==
               AppendRow(report_df,
                         RowB(targets[ti], optimized_model, model, best_params,
                              plot_index))
       IN /\ report_df' = report
          /\ xlsx' = WriteReport(report)
          /\ csv' = WriteReport(report)
    /\ artifacts' = artifacts \cup IterationArtifacts(plot_index)
    /\ plot_index' = plot_index + 1
    /\ ti' = ti + 1
    /\ pc' = "targets"
    /\ UNCHANGED <<args, selected, error, fi, ei, cv_df, model, best_cv_estimator>>

B_OptimizeFails ==
    /\ UNCHANGED outside_orchestration
    /\ strategy = "B"
    /\ pc = "optimize"
    /\ \E saved \in {{}, {ArtifactPath("roc_auc", plot_index, "png")}} :
            artifacts' = artifacts \cup saved
    /\ pc' = "aborted"
    /\ error' = "IterationFailure"
    /\ UNCHANGED <<args, selected, fi, ti, ei, report_df, plot_index, xlsx, csv,
                   cv_df, model, best_cv_estimator>>

B_Return ==
    /\ UNCHANGED outside_orchestration
    /\ strategy = "B"
    /\ pc = "targets"
    /\ ti > Len(targets)
    /\ xlsx' = WriteReport(report_df)
    /\ csv' = WriteReport(report_df)
    /\ pc' = "done"
    /\ UNCHANGED <<args, selected, error, fi, ti, ei, report_df, plot_index,
                   artifacts, cv_df, model, best_cv_estimator>>

\* ---------------------------------------------------- Strategy C: univariate
\* update_report is called without feature_selection and selected_features;
\* the features of the row are the names the fitted model has seen.
RowC(feature_cols_, target, estimator, m, index) ==
    [target |-> target,
     negative_samples |-> negative_samples(target),
     positive_samples |-> positive_samples(target),
     features |-> feature_names_in_(m, feature_cols_),
     estimator_name |-> ClassName(estimator),
     metrics |-> cross_validate_model(m, feature_cols_, target),
     roc_plot_path |-> ArtifactPath("roc_auc", index, "png"),
     feature_importance_csv |-> ArtifactPath("feature_importance", index, "csv"),
     feature_importance_plot_path |-> ArtifactPath("feature_importance", index, "png"),
     feature_importance |-> get_feature_importance(m),
     sampling |-> sample_method,
     feature_selection |-> "absent",
     selected_features |-> "absent",
     best_params |-> "absent"]

\* feature_selection_method = None, output folder, empty report, plot_index = 0.
C_Setup ==
    /\ UNCHANGED outside_orchestration
    /\ strategy = "C"
    /\ pc = "call"
    /\ feature_selection_method' = "None"
    /\ report_df' = <<>>
    /\ plot_index' = 0
    /\ fi' = 1
    /\ pc' = "features"
    /\ UNCHANGED <<strategy, feature_cols, target_cols, estimators, sample_method,
                   selected, error, ti, ei, xlsx, csv, artifacts, cv_df, model,
                   best_cv_estimator>>

\* for feature in feature_cols: the selector on the single feature.
C_NextFeature ==
    /\ UNCHANGED outside_orchestration
    /\ strategy = "C"
    /\ pc = "features"
    /\ fi <= Len(feature_cols)
    /\ LET r == features_and_targets_from_dataframe(<<feature_cols[fi]>>, target_cols)
       IN /\ features' = r.features
          /\ targets' = r.targets
          /\ feature_scale_levels' = r.feature_scale_levels
    /\ ti' = 1
    /\ pc' = "targets"
    /\ UNCHANGED <<args, error, fi, ei, report_df, plot_index, xlsx, csv,
                   artifacts, cv_df, model, best_cv_estimator>>

C_NextTarget ==
    /\ UNCHANGED outside_orchestration
    /\ strategy = "C"
    /\ pc = "targets"
    /\ ti <= Len(targets)
    /\ ei' = 1
    /\ pc' = "estimators"
    /\ UNCHANGED <<args, selected, error, fi, ti, report_df, plot_index, xlsx,
                   csv, artifacts, cv_df, model, best_cv_estimator>>

\* Mutant: the cross-validation is on all feature columns, as in Strategy A.
C_Iteration_AllFeatures ==
    /\ UNCHANGED outside_orchestration
    /\ strategy = "C"
    /\ pc = "estimators"
    /\ ei <= Len(estimators)
    /\ LET m == build_model(feature_scale_levels, sample_method,
                            feature_selection_method, estimators[ei])
       IN /\ model' = m
          /\ report_df' =
                AppendRow(report_df,
                          RowC(feature_cols, targets[ti], estimators[ei], m, plot_index))
    /\ artifacts' = artifacts \cup IterationArtifacts(plot_index)
    /\ plot_index' = plot_index + 1
    /\ ei' = ei + 1
    /\ UNCHANGED <<args, selected, pc, error, fi, ti, xlsx, csv, cv_df,
                   best_cv_estimator>>

\* One iteration of the inner loop, on the single feature.
C_Iteration ==
    /\ UNCHANGED outside_orchestration
    /\ strategy = "C"
    /\ pc = "estimators"
    /\ ei <= Len(estimators)
    /\ LET m == build_model(feature_scale_levels, sample_method,
                            feature_selection_method, estimators[ei])
       IN /\ model' = m
          /\ report_df' =
                AppendRow(report_df,
                          RowC(<<feature_cols[fi]>>, targets[ti], estimators[ei], m,
                               plot_index))
    /\ artifacts' = artifacts \cup IterationArtifacts(plot_index)
    /\ plot_index' = plot_index + 1
    /\ ei' = ei + 1
    /\ UNCHANGED <<args, selected, pc, error, fi, ti, xlsx, csv, cv_df,
                   best_cv_estimator>>

C_IterationFails ==
    /\ UNCHANGED outside_orchestration
    /\ strategy = "C"
    /\ pc = "estimators"
    /\ ei <= Len(estimators)
    /\ \E saved \in {{}, {ArtifactPath("roc_auc", plot_index, "png")}} :
            artifacts' = artifacts \cup saved
    /\ pc' = "aborted"
    /\ error' = "IterationFailure"
    /\ UNCHANGED <<args, selected, fi, ti, ei, report_df, plot_index, xlsx, csv,
                   cv_df, model, best_cv_estimator>>

\* After the loop over estimators: the report is written to both files.
C_CheckpointTarget ==
    /\ UNCHANGED outside_orchestration
    /\ strategy = "C"
    /\ pc = "estimators"
    /\ ei > Len(estimators)
    /\ xlsx' = WriteReport(report_df)
    /\ csv' = WriteReport(report_df)
    /\ ti' = ti + 1
    /\ pc' = "targets"
    /\ UNCHANGED <<args, selected, error, fi, ei, report_df, plot_index,
                   artifacts, cv_df, model, best_cv_estimator>>

\* After the loop over targets, still inside the loop over features: the
\* report is written again.
C_CheckpointFeature ==
    /\ UNCHANGED outside_orchestration
    /\ strategy = "C"
    /\ pc = "targets"
    /\ ti > Len(targets)
    /\ xlsx' = WriteReport(report_df)
    /\ csv' = WriteReport(report_df)
    /\ fi' = fi + 1
    /\ pc' = "features"
    /\ UNCHANGED <<args, selected, error, ti, ei, report_df, plot_index,
                   artifacts, cv_df, model, best_cv_estimator>>

\* After the loop over features: the report is returned.
C_Return ==
    /\ UNCHANGED outside_orchestration
    /\ strategy = "C"
    /\ pc = "features"
    /\ fi > Len(feature_cols)
    /\ pc' = "done"
    /\ UNCHANGED <<args, selected, error, fi, ti, ei, report_df, plot_index, xlsx,
                   csv, artifacts, cv_df, model, best_cv_estimator>>

\* ------------------------------------------------------------ specification
Next ==
    \/ S_Classify
    \/ A_Setup
    \/ A_NextTarget
    \/ A_Iteration
    \/ A_IterationFails
    \/ A_CheckpointTarget
    \/ A_Return
    \/ B_Setup
    \/ B_NextTarget
    \/ B_InitialCV
    \/ B_InitialCVFails
    \/ B_SelectBest
    \/ B_OptimizeAndReport
    \/ B_OptimizeFails
    \/ B_Return
    \/ C_Setup
    \/ C_NextFeature
    \/ C_NextTarget
    \/ C_Iteration
    \/ C_IterationFails
    \/ C_CheckpointTarget
    \/ C_CheckpointFeature
    \/ C_Return

Spec == Init /\ [][Next]_vars

\* ================================================================ the DataSet
\* racoons/data/dataset.py and create_scale_level_template of
\* racoons/data/utils.py.

\* Longest list of feature columns a DataSet is asked for.
MaxDsFeatures == 2

\* ------------------------------------------------------------ the raw frame
\* The dataset file: its columns in the order of the file, two rows.
RawColumns == <<"Size", "Grade", "Score", "Date", "Flag">>

\* A float cell: whole and fractional part.
Float(whole, frac) == [whole |-> whole, frac |-> frac]

RawValues ==
    [c \in Range(RawColumns) |->
        CASE c = "Size" -> <<1, 3>>
          [] c = "Grade" -> <<"Small", "Large">>
          [] c = "Score" -> <<Float(7, 9), Float(4, 2)>>
          [] c = "Date" -> <<"2020-01-01", "2021-06-30">>
          [] c = "Flag" -> <<TRUE, FALSE>>]

\* pd.read_csv: a column of dates is read as strings.
read_csv ==
    [columns |-> RawColumns,
     dtype |-> [c \in Range(RawColumns) |->
                    CASE c = "Size" -> "int64"
                      [] c = "Grade" -> "object"
                      [] c = "Score" -> "float64"
                      [] c = "Date" -> "object"
                      [] c = "Flag" -> "bool"],
     values |-> RawValues]

\* pd.read_excel: a column of dates is read as datetime64.
read_excel == [read_csv EXCEPT !.dtype["Date"] = "datetime64"]

is_numeric_dtype(dtype) == dtype \in {"int64", "Int64", "float64", "bool"}

is_string_or_object_dtype(dtype) == dtype = "object"

\* ------------------------------------------------------------- the template
\* Cells of the column "Level order (for ordinal values)" of scale_levels.csv:
\* an empty cell is read back as NaN, a filled cell as its text.
NaN == [nan |-> TRUE]

Text(tokens) == [nan |-> FALSE, tokens |-> tokens]

\* The scale level create_scale_level_template derives from a raw dtype.
TemplateScaleLevel(dtype) ==
    IF is_string_or_object_dtype(dtype) \/ is_bool_dtype(dtype)
    THEN "categorical"
    ELSE IF is_numeric_dtype(dtype)
         THEN "numerical"
         ELSE "provide scale level"

\* The list dtypes of create_scale_level_template: one element per column of
\* the frame that is among the requested ones, in the order of the frame.
RECURSIVE TemplateDtypes(_, _, _)
TemplateDtypes(frame, columns_to_use, k) ==
    IF k > Len(frame.columns)
    THEN <<>>
    ELSE LET column == frame.columns[k]
         IN (IF column \in Range(columns_to_use)
             THEN <<TemplateScaleLevel(frame.dtype[column])>>
             ELSE <<>>) \o TemplateDtypes(frame, columns_to_use, k + 1)

\* create_scale_level_template(df, columns_to_use): the rows of the template,
\* or the ValueError of pd.DataFrame when the three lists differ in length.
create_scale_level_template(frame, requested) ==
    LET columns_to_use == IF requested = <<>> THEN frame.columns ELSE requested
        dtypes == TemplateDtypes(frame, columns_to_use, 1)
    IN IF Len(dtypes) # Len(columns_to_use)
       THEN [ok |-> FALSE, error |-> "ValueError"]
       ELSE [ok |-> TRUE,
             rows |-> [i \in DOMAIN columns_to_use |->
                          [Column |-> columns_to_use[i],
                           Scale_Level |-> dtypes[i],
                           Level_order |-> NaN]]]

\* ------------------------------------------------------------- the registry
None == [none |-> TRUE]

List(tokens) == [none |-> FALSE, list |-> tokens]

\* The keys of the dict built by _read_scale_levels, in insertion order.
RECURSIVE RegistryKeys(_, _)
RegistryKeys(rows, k) ==
    IF k > Len(rows)
    THEN <<>>
    ELSE (IF \E j \in 1..(k - 1) : rows[j].Column = rows[k].Column
          THEN <<>>
          ELSE <<rows[k].Column>>) \o RegistryKeys(rows, k + 1)

\* The dict built by _read_scale_levels from the rows of scale_levels.csv: a
\* later row of the same Column replaces the earlier one.
read_scale_levels(rows) ==
    [keys |-> RegistryKeys(rows, 1),
     details |->
        [column \in {rows[k].Column : k \in DOMAIN rows} |->
            LET last == CHOOSE k \in DOMAIN rows :
                            /\ rows[k].Column = column
                            /\ \A j \in DOMAIN rows :
                                   rows[j].Column = column => j <= k
                cell == rows[last].Level_order
            IN [scale_level |-> rows[last].Scale_Level,
                level_order |-> IF ~cell.nan THEN List(cell.tokens) ELSE None]]]

\* --------------------------------------------------------------- coercion
Failed(exception) == [ok |-> FALSE, error |-> exception]

Series(dtype, values) == [ok |-> TRUE, dtype |-> dtype, values |-> values]

\* Series.astype("float")
astype_float(dtype, values) ==
    CASE dtype = "float64" -> Series("float64", values)
      [] dtype \in {"int64", "Int64"} ->
            Series("float64", [i \in DOMAIN values |-> Float(values[i], 0)])
      [] dtype \in {"bool", "category_bool"} ->
            Series("float64",
                   [i \in DOMAIN values |->
                        Float(IF values[i] THEN 1 ELSE 0, 0)])
      [] dtype = "datetime64" -> Failed("TypeError")
      [] OTHER -> Failed("ValueError")

\* Series.astype("int64") of a numeric column
astype_int64(dtype, values) ==
    CASE dtype = "float64" ->
            Series("int64", [i \in DOMAIN values |-> values[i].whole])
      [] dtype = "bool" ->
            Series("int64", [i \in DOMAIN values |-> IF values[i] THEN 1 ELSE 0])
      [] OTHER -> Series("int64", values)

\* Series.astype("category")
astype_category(dtype, values) ==
    Series(IF dtype \in {"bool", "category_bool"} THEN "category_bool" ELSE "category",
           values)

\* level_order.index(x), counted from 0
index(level_order, x) ==
    (CHOOSE i \in DOMAIN level_order :
        /\ level_order[i] = x
        /\ \A j \in 1..(i - 1) : level_order[j] # x) - 1

\* Whether x is an element of the list of level names.  The names are
\* strings: a timestamp or a boolean is equal to none of them.
Occurs(dtype, level_order, x) ==
    /\ dtype \in {"object", "category"}
    /\ \E i \in DOMAIN level_order : level_order[i] = x

\* Mutant: a value that is not in the level order gets the rank -1.
LookupRanks_MissingAsMinusOne(dtype, values, level_order) ==
    IF level_order.none
    THEN Failed("AttributeError")
    ELSE Series("int64",
                [i \in DOMAIN values |->
                    IF Occurs(dtype, level_order.list, values[i])
                    THEN index(level_order.list, values[i])
                    ELSE 0 - 1])

\* df[column].apply(lambda x: level_order.index(x)) on a non-numeric column
LookupRanks(dtype, values, level_order) ==
    IF level_order.none
    THEN Failed("AttributeError")
    ELSE IF \E i \in DOMAIN values : ~Occurs(dtype, level_order.list, values[i])
         THEN Failed("ValueError")
         ELSE Series("int64",
                     [i \in DOMAIN values |-> index(level_order.list, values[i])])

\* Mutant: the ranks are looked up on numeric columns too.
CoerceOrdinal_AlwaysLookup(dtype, values, level_order) ==
    LookupRanks(dtype, values, level_order)

\* The branch "ordinal" of _apply_scale_levels.
CoerceOrdinal(dtype, values, level_order) ==
    IF ~is_numeric_dtype(dtype)
    THEN LookupRanks(dtype, values, level_order)
    ELSE astype_int64(dtype, values)

\* One iteration of the loop of _apply_scale_levels on a column in scope.
CoerceColumn(dtype, values, details) ==
    CASE details.scale_level = "numerical" -> astype_float(dtype, values)
      [] details.scale_level = "ordinal" ->
            CoerceOrdinal(dtype, values, details.level_order)
      [] details.scale_level = "categorical" -> astype_category(dtype, values)
      [] OTHER -> Series(dtype, values)

\* The loop of _apply_scale_levels from the k-th key of the registry on.
RECURSIVE ApplyFrom(_, _, _, _)
ApplyFrom(frame, registry, scope, k) ==
    IF k > Len(registry.keys)
    THEN [ok |-> TRUE, frame |-> frame]
    ELSE LET column == registry.keys[k]
         IN IF column \notin Range(scope)
            THEN ApplyFrom(frame, registry, scope, k + 1)
            ELSE LET r == CoerceColumn(frame.dtype[column], frame.values[column],
                                       registry.details[column])
                 IN IF ~r.ok
                    THEN r
                    ELSE ApplyFrom([frame EXCEPT !.dtype[column] = r.dtype,
                                                 !.values[column] = r.values],
                                   registry, scope, k + 1)

\* DataSet._apply_scale_levels on a frame
apply_scale_levels(frame, registry, scope) == ApplyFrom(frame, registry, scope, 1)

\* dataframe.copy().loc[:, cols]
loc(frame, cols) ==
    [columns |-> cols,
     dtype |-> [c \in Range(cols) |-> frame.dtype[c]],
     values |-> [c \in Range(cols) |-> frame.values[c]]]

\* ---------------------------------------------------------- the constructor
Suffixes == {".csv", ".xlsx", ".txt"}

DsFeaturePool == {"Size", "Grade", "Date"}

DsTargetPool == {"Flag"}

\* Lists of distinct columns of the dataset a constructor is asked for.
DsFeatureRequests ==
    {s \in SeqsUpTo(DsFeaturePool, MaxDsFeatures) : NoDuplicates(s)}

DsTargetRequests == {s \in SeqsUpTo(DsTargetPool, 1) : NoDuplicates(s)}

\* Rows a person can fill in for a column of scale_levels.csv.
LevelOrderCells == {NaN, Text(<<"Large", "Small">>), Text(<<"Large", "Medium">>)}

LookupRows(column) ==
    {[Column |-> column, Scale_Level |-> level, Level_order |-> NaN] :
        level \in {"numerical", "categorical", "provide scale level"}}
    \cup {[Column |-> column, Scale_Level |-> "ordinal", Level_order |-> cell] :
            cell \in LevelOrderCells}

\* DataFrame.to_csv(path, index=False)
to_csv(rows) == [exists |-> TRUE, rows |-> rows]

\* The directory of the dataset before the first construction.
InitialLookupFiles ==
    {Absent} \cup {to_csv(<<row>>) : row \in LookupRows("Grade")}

\* A registry passed to the constructor.
ExplicitScaleLevels ==
    read_scale_levels(<<[Column |-> "Grade", Scale_Level |-> "ordinal",
                         Level_order |-> Text(<<"Large", "Small">>)]>>)

\* DataSet._read_dataframe: no branch for any other extension.
read_dataframe(obj) ==
    IF obj.dataset_path.suffix = ".csv"
    THEN [obj EXCEPT !._raw_dataframe = Bound(read_csv)]
    ELSE IF obj.dataset_path.suffix = ".xlsx"
         THEN [obj EXCEPT !._raw_dataframe = Bound(read_excel)]
         ELSE obj

\* The attributes __init__ assigns before it reads the dataset.
NewDataSet(suffix, fcols, tcols) ==
    [dataset_path |-> [parent |-> "dir", suffix |-> suffix],
     feature_cols |-> fcols,
     target_cols |-> tcols,
     _raw_dataframe |-> Unset,
     scale_levels |-> Unset,
     dataframe |-> Unset,
     features |-> Unset,
     targets |-> Unset]

\* __init__, lines 10-14: the arguments are stored and the dataset is read.
DS_Construct ==
    /\ UNCHANGED <<orchestration_vars, config_vars, run_vars>>
    /\ ds_entry = "__init__"
    /\ ds_pc \in {"idle", "done", "exit", "raised"}
    /\ \E suffix \in Suffixes, fcols \in DsFeatureRequests,
          tcols \in DsTargetRequests,
          scale_levels \in {Unset, Bound(ExplicitScaleLevels)} :
            /\ self' = read_dataframe(NewDataSet(suffix, fcols, tcols))
            /\ scale_levels_arg' = scale_levels
            /\ ds_pc' = IF ~scale_levels.set THEN "read_scale_levels" ELSE "apply"
    /\ ds_error' = "none"
    /\ lookup_io' = [lookup_io EXCEPT !.read = FALSE, !.wrote = FALSE]
    /\ UNCHANGED <<ds_entry, lookup_file>>

\* _read_scale_levels when scale_levels.csv is there: the registry is loaded.
DS_ReadScaleLevels ==
    /\ UNCHANGED <<orchestration_vars, config_vars, run_vars>>
    /\ ds_pc = "read_scale_levels"
    /\ lookup_file.exists
    /\ self' = [self EXCEPT !.scale_levels = Bound(read_scale_levels(lookup_file.rows))]
    /\ lookup_io' = [lookup_io EXCEPT !.read = TRUE]
    /\ ds_pc' = "apply"
    /\ UNCHANGED <<ds_entry, scale_levels_arg, ds_error, lookup_file>>

\* _read_scale_levels when scale_levels.csv is missing: the handler of
\* FileNotFoundError writes the template and raises SystemExit.
DS_MissingScaleLevels ==
    /\ UNCHANGED <<orchestration_vars, config_vars, run_vars>>
    /\ ds_pc = "read_scale_levels"
    /\ ~lookup_file.exists
    /\ IF ~self._raw_dataframe.set
       THEN /\ ds_error' = "AttributeError"
            /\ ds_pc' = "raised"
            /\ UNCHANGED <<lookup_file, lookup_io>>
       ELSE LET template ==
                    create_scale_level_template(self._raw_dataframe.value,
                                                self.feature_cols \o self.target_cols)
            IN IF ~template.ok
               THEN /\ ds_error' = template.error
                    /\ ds_pc' = "raised"
                    /\ UNCHANGED <<lookup_file, lookup_io>>
               ELSE /\ lookup_file' = to_csv(template.rows)
                    /\ lookup_io' = [lookup_io EXCEPT !.wrote = TRUE, !.written = @ + 1]
                    /\ ds_error' = "SystemExit"
                    /\ ds_pc' = "exit"
    /\ UNCHANGED <<ds_entry, self, scale_levels_arg>>

\* What line 18 to 20 of __init__ make of the object: the typed frame and the
\* two views, or the exception.
ApplyAndSlice(obj) ==
    IF ~obj._raw_dataframe.set \/ ~obj.scale_levels.set
    THEN [obj |-> obj, error |-> "AttributeError"]
    ELSE LET r == apply_scale_levels(obj._raw_dataframe.value,
                                     obj.scale_levels.value,
                                     obj.target_cols \o obj.feature_cols)
         IN IF ~r.ok
            THEN [obj |-> obj, error |-> r.error]
            ELSE [obj |-> [obj EXCEPT !.dataframe = Bound(r.frame),
                                      !.features = Bound(loc(r.frame, obj.feature_cols)),
                                      !.targets = Bound(loc(r.frame, obj.target_cols))],
                  error |-> "none"]

\* __init__, lines 18-20: _apply_scale_levels, then the two views.
DS_ApplyScaleLevels ==
    /\ UNCHANGED <<orchestration_vars, config_vars, run_vars>>
    /\ ds_pc = "apply"
    /\ LET r == ApplyAndSlice(self)
       IN /\ self' = r.obj
          /\ ds_error' = r.error
          /\ ds_pc' = IF r.error = "none" THEN "done" ELSE "raised"
    /\ UNCHANGED <<ds_entry, scale_levels_arg, lookup_file, lookup_io>>

\* _apply_scale_levels called again, on the frame it returned.
DS_Reapply ==
    /\ UNCHANGED <<orchestration_vars, config_vars, run_vars>>
    /\ ds_entry = "_apply_scale_levels"
    /\ ds_pc = "done"
    /\ LET typed == [self EXCEPT !._raw_dataframe = self.dataframe]
           r == ApplyAndSlice(typed)
       IN /\ self' = r.obj
          /\ ds_error' = r.error
          /\ ds_pc' = IF r.error = "none" THEN "reapplied" ELSE "raised"
    /\ UNCHANGED <<ds_entry, scale_levels_arg, lookup_file, lookup_io>>

\* The orchestration is not running.
OrchestrationIdle ==
    /\ strategy = "none"
    /\ feature_cols = <<>>
    /\ target_cols = <<>>
    /\ estimators = <<>>
    /\ feature_selection_method = "None"
    /\ sample_method = "smote"
    /\ pc = "idle"
    /\ error = "none"
    /\ features = <<>>
    /\ targets = <<>>
    /\ feature_scale_levels = NoScaleLevels
    /\ fi = 1
    /\ ti = 1
    /\ ei = 1
    /\ report_df = <<>>
    /\ plot_index = 0
    /\ xlsx = Absent
    /\ csv = Absent
    /\ artifacts = {}
    /\ cv_df = <<>>
    /\ model = NoModel
    /\ best_cv_estimator = "none"

\* Registries with one entry for every column in scope.
RECURSIVE LookupFilesFor(_)
LookupFilesFor(cols) ==
    IF cols = <<>>
    THEN {<<>>}
    ELSE {<<row>> \o rest : row \in LookupRows(Head(cols)),
                            rest \in LookupFilesFor(Tail(cols))}

\* A loaded object on which _apply_scale_levels is about to run.
LoadedDataSet(suffix, fcols, rows) ==
    [NewDataSet(suffix, fcols, <<>>) EXCEPT
        !._raw_dataframe = Bound(IF suffix = ".csv" THEN read_csv ELSE read_excel),
        !.scale_levels = Bound(read_scale_levels(rows))]

\* Non-empty lists of distinct columns of the dataset.
ScopeRequests ==
    {s \in SeqsUpTo(Range(RawColumns), MaxDsFeatures) : s # <<>> /\ NoDuplicates(s)}

InitDataSet ==
    /\ OrchestrationIdle
    /\ ConfigIdle
    /\ RunsIdle
    /\ ds_entry \in {"__init__", "_apply_scale_levels"}
    /\ scale_levels_arg = Unset
    /\ ds_error = "none"
    /\ lookup_io = [read |-> FALSE, wrote |-> FALSE, written |-> 0]
    /\ IF ds_entry = "__init__"
       THEN /\ self = Unset
            /\ ds_pc = "idle"
            /\ lookup_file \in InitialLookupFiles
       ELSE /\ \E suffix \in {".csv", ".xlsx"}, fcols \in ScopeRequests :
                    \E rows \in LookupFilesFor(fcols) :
                        self = LoadedDataSet(suffix, fcols, rows)
            /\ ds_pc = "apply"
            /\ lookup_file = Absent

NextDataSet ==
    \/ DS_Construct
    \/ DS_ReadScaleLevels
    \/ DS_MissingScaleLevels
    \/ DS_ApplyScaleLevels
    \/ DS_Reapply

SpecDataSet == InitDataSet /\ [][NextDataSet]_vars

\* ================================================================ configurable
\* racoons/config.py: the wrapper of a @configurable function.

\* Number of calls that share one config dict.
MaxCalls == 2

\* Keywords of the function, as configurable_method of the tests.
Keywords == {"configurable_kwarg", "msg"}

KeywordValues == {"0", "1"}

\* The dicts over the keywords of the function: a keyword is absent or has
\* a value.
KeywordDicts ==
    {[k \in DOMAIN NoKeywords |-> IF k \in Keywords THEN d[k] ELSE "absent"] :
        d \in [Keywords -> KeywordValues \cup {"absent"}]}

\* dict.update
update(d, other) ==
    [k \in DOMAIN d |-> IF other[k] # "absent" THEN other[k] ELSE d[k]]

\* config is None: func(*args, **kwargs)
CF_CallWithoutConfig ==
    /\ UNCHANGED <<orchestration_vars, dataset_vars, run_vars>>
    /\ calls < MaxCalls
    /\ \E explicit \in KeywordDicts :
          /\ kwargs' = explicit
          /\ received' = explicit
    /\ calls' = calls + 1
    /\ UNCHANGED <<caller_config, conf>>

\* config is the dict the calls share: conf is its entry for the function,
\* updated in place with the keywords of the call.
CF_CallWithDict ==
    /\ UNCHANGED <<orchestration_vars, dataset_vars, run_vars>>
    /\ calls < MaxCalls
    /\ \E explicit \in KeywordDicts :
          LET given == [explicit EXCEPT !["config"] = "dict"]
          IN /\ kwargs' = given
             /\ conf' = update(conf, given)
             /\ received' = update(conf, given)
    /\ calls' = calls + 1
    /\ UNCHANGED caller_config

\* config is the path of a yaml file: the file is loaded anew, and the dict
\* that is updated is dropped when the call returns.
CF_CallWithYaml ==
    /\ UNCHANGED <<orchestration_vars, dataset_vars, run_vars>>
    /\ calls < MaxCalls
    /\ \E explicit \in KeywordDicts :
          LET given == [explicit EXCEPT !["config"] = "path"]
          IN /\ kwargs' = given
             /\ received' = update(caller_config, given)
    /\ calls' = calls + 1
    /\ UNCHANGED <<caller_config, conf>>

InitConfig ==
    /\ OrchestrationIdle
    /\ DataSetIdle
    /\ RunsIdle
    /\ caller_config \in KeywordDicts
    /\ conf = caller_config
    /\ kwargs = NoKeywords
    /\ received = NoKeywords
    /\ calls = 0

NextConfig ==
    \/ CF_CallWithoutConfig
    \/ CF_CallWithDict
    \/ CF_CallWithYaml

SpecConfig == InitConfig /\ [][NextConfig]_vars

\* =========================================================== output folders
\* The set-up of the output folder by the three orchestration functions
\* (classification.py, lines 75-81, 209-215 and 376-382).

\* Number of orchestration calls with one output path.
MaxRuns == 3

\* Last tick of the clock.
MaxTicks == 3

\* Ticks of the clock in one second.
TicksPerSecond == 2

\* datetime.now().strftime('%Y-%m-%d_%H:%M:%S'): the time to the second.
strftime(t) == t \div TicksPerSecond

\* The name of the output folder of a call.
output_folder(entry, t) ==
    <<CASE entry = "A" -> "multivariate_analysis_"
        [] entry = "B" -> "gs_multivariate_analysis_"
        [] entry = "C" -> "univariate_analysis_",
      strftime(t)>>

\* The clock goes on.
R_Tick ==
    /\ UNCHANGED <<orchestration_vars, dataset_vars, config_vars>>
    /\ now < MaxTicks
    /\ now' = now + 1
    /\ UNCHANGED <<output_path, runs>>

\* One orchestration call: output_folder.mkdir(exist_ok=True) creates the
\* folder or takes the one that is there, and the report snapshots of the call
\* replace those the folder holds.
R_Call ==
    /\ UNCHANGED <<orchestration_vars, dataset_vars, config_vars>>
    /\ Len(runs) < MaxRuns
    /\ \E entry \in {"A", "B", "C"} :
          LET folder == output_folder(entry, now)
              run == Len(runs) + 1
          IN /\ runs' = Append(runs, [strategy |-> entry, started |-> now,
                                      folder |-> folder])
             /\ output_path' =
                    {f \in output_path : f.folder # folder}
                    \cup {[folder |-> folder, report_of |-> run]}
    /\ UNCHANGED now

InitRuns ==
    /\ OrchestrationIdle
    /\ DataSetIdle
    /\ ConfigIdle
    /\ now = 0
    /\ output_path = {}
    /\ runs = <<>>

NextRuns ==
    \/ R_Tick
    \/ R_Call

SpecRuns == InitRuns /\ [][NextRuns]_vars

\* ==================================================================== claims
Orchestration == strategy \in {"A", "B", "C"}

\* The targets the selector accepts among the requested ones.
AcceptedTargets == features_and_targets_from_dataframe(feature_cols, target_cols).targets

\* The features the selector accepts among the requested ones.
AcceptedFeatures == features_and_targets_from_dataframe(feature_cols, target_cols).features

\* ------------------------------------------------------------------------ C1
\* Row n (from 1) of the report of Strategy A is the row of target
\* (n-1) div |E| and estimator (n-1) mod |E|, and the returned report has
\* |T|*|E| rows.
C1_RowsTargetMajor ==
    strategy = "A" =>
        /\ \A n \in DOMAIN report_df :
              /\ report_df[n].target = AcceptedTargets[((n - 1) \div Len(estimators)) + 1]
              /\ report_df[n].estimator_name =
                    ClassName(estimators[((n - 1) % Len(estimators)) + 1])
        /\ pc = "done" => Len(report_df) = Len(AcceptedTargets) * Len(estimators)

\* C1: Strategy A returns |T|*|E| rows, row i*|E|+j being the row of target
\* T[i] and estimator E[j], and every step leaves the rows it found in place:
\* rows are appended, never reordered or removed.
C1_TargetMajorAppendOnly ==
    /\ []C1_RowsTargetMajor
    /\ [][strategy = "A" => IsPrefix(report_df, report_df')]_vars

C1_Witness ==
    /\ strategy = "A"
    /\ pc = "done"
    /\ Len(targets) = 2
    /\ Len(estimators) = 2
    /\ estimators[1] # estimators[2]
    /\ Len(report_df) = 4

\* ------------------------------------------------------------------------ C2
\* A model build is about to begin, or the call has returned.
BeforeModelBuild ==
    \/ pc = "estimators" /\ ei <= Len(estimators)
    \/ pc = "optimize"

Persisted(report) == xlsx.rows = report /\ csv.rows = report

\* C2 as stated: whenever the model build of an iteration begins, and when the
\* call has returned, both persisted reports hold every row appended so far.
C2_CheckpointAfterEveryRow ==
    Orchestration /\ (BeforeModelBuild \/ pc = "done") => Persisted(report_df)

\* C2, amended: the report is written to both files when the estimator loop
\* of a target is complete (Strategy B: when the row of the target is
\* appended) and once more after the loop over targets, so both files hold
\* every row appended so far whenever the block of a target begins and when
\* the call has returned; inside the block of a target of Strategies A and C
\* the files hold the rows appended before the block began.
C2_CheckpointAfterEveryTarget ==
    Orchestration =>
        /\ xlsx = csv
        /\ IF strategy \in {"A", "C"} /\ pc \in {"estimators", "aborted"}
           THEN xlsx.rows = SubSeq(report_df, 1, Len(report_df) - (ei - 1))
           ELSE Persisted(report_df)
        /\ pc = "done" /\ (strategy \in {"A", "B"} \/ feature_cols # <<>>) =>
              xlsx.exists /\ csv.exists

C2_Witness ==
    /\ strategy = "A"
    /\ pc = "estimators"
    /\ ti = 2
    /\ ei = 1
    /\ Len(report_df) = 2
    /\ xlsx.exists
    /\ Persisted(report_df)

\* ------------------------------------------------------------------------ C3
\* C3: when an iteration of target T[k] of Strategy A fails, the call is
\* aborted with that failure, nothing runs after it, and both report files
\* hold the rows of all iterations of the targets before T[k], in order, and
\* no row of T[k].
C3_FailFastKeepsCompletedTargets ==
    strategy = "A" /\ pc = "aborted" =>
        /\ error = "IterationFailure"
        /\ ~ENABLED Next
        /\ xlsx.rows = csv.rows
        /\ Len(xlsx.rows) = (ti - 1) * Len(estimators)
        /\ IsPrefix(xlsx.rows, report_df)
        /\ \A n \in DOMAIN xlsx.rows :
              /\ xlsx.rows[n].target = AcceptedTargets[((n - 1) \div Len(estimators)) + 1]
              /\ xlsx.rows[n].estimator_name =
                    ClassName(estimators[((n - 1) % Len(estimators)) + 1])
        /\ \A n \in DOMAIN xlsx.rows : xlsx.rows[n].target # AcceptedTargets[ti]

C3_Witness ==
    /\ strategy = "A"
    /\ pc = "aborted"
    /\ ti = 2
    /\ ei = 2
    /\ Len(report_df) = 3
    /\ Len(xlsx.rows) = 2
    /\ xlsx.exists /\ csv.exists

\* ------------------------------------------------------------------------ C4
\* C4: a call with no accepted target or with no estimator never raises and
\* has no report row.
C4_DegenerateCallIsNoOp ==
    Orchestration /\ (AcceptedTargets = <<>> \/ estimators = <<>>) =>
        /\ pc # "aborted"
        /\ report_df = <<>>

\* ------------------------------------------------------------------------ C5
\* The ranking has one row per estimator of the list, in list order.
RankingComplete ==
    /\ Len(cv_df) = Len(estimators)
    /\ \A i \in DOMAIN cv_df : cv_df[i].Model = estimators[i]

IsMaxAUC(i) == \A j \in DOMAIN cv_df : cv_df[j].AUC <= cv_df[i].AUC

\* The first position of the list whose mean AUC is the largest.
FirstMaxAUC == CHOOSE i \in DOMAIN cv_df : IsMaxAUC(i) /\ \A j \in 1..(i - 1) : ~IsMaxAUC(j)

\* C5 as stated: the estimator optimized for a target has the largest mean AUC
\* of the initial cross-validation, and among several with the largest it is
\* the first of the list.
C5_BestIsFirstMaximum ==
    strategy = "B" /\ pc = "optimize" =>
        /\ RankingComplete
        /\ best_cv_estimator = estimators[FirstMaxAUC]

\* C5, amended: the estimator optimized for a target is one with the largest
\* mean AUC of the initial cross-validation; among several with the largest,
\* which one is chosen is left to the sort, which is not stable.
C5_BestHasMaximalAUC ==
    strategy = "B" /\ pc = "optimize" =>
        /\ RankingComplete
        /\ \E i \in DOMAIN cv_df : IsMaxAUC(i) /\ best_cv_estimator = estimators[i]

C5_Witness ==
    /\ strategy = "B"
    /\ pc = "optimize"
    /\ Len(estimators) = 2
    /\ estimators[1] # estimators[2]
    /\ cv_df[1].AUC < cv_df[2].AUC
    /\ best_cv_estimator = estimators[2]

\* ------------------------------------------------------------------------ C6
\* The model a row of Strategy B is about: the estimator of the row rebuilt
\* with the feature selection of the call and the best parameters set.
IsOptimizedModel(m, row) ==
    /\ ClassName(m.estimator) = row.estimator_name
    /\ m.feature_selection_method = feature_selection_method
    /\ m.params = row.best_params
    /\ m.params # "default"

\* C6: the metrics, the selected features and the feature importance of every
\* row of Strategy B come from the optimized model of the row.
C6_RowFromOptimizedModel ==
    strategy = "B" =>
        \A n \in DOMAIN report_df :
            /\ IsOptimizedModel(report_df[n].metrics.model, report_df[n])
            /\ IsOptimizedModel(report_df[n].selected_features.names_seen_by, report_df[n])
            /\ IsOptimizedModel(report_df[n].feature_importance.importance_of, report_df[n])

\* ------------------------------------------------------------------------ C7
\* C7: row n (from 1) of the report of Strategy C is the row of feature
\* (n-1) div (|T|*|E|), target ((n-1) div |E|) mod |T| and estimator
\* (n-1) mod |E|; its model is built without feature selection and its
\* cross-validation is on the single feature; the returned report has
\* |F|*|T|*|E| rows.
C7_UnivariateRows ==
    strategy = "C" =>
        /\ \A n \in DOMAIN report_df :
              LET nT == Len(AcceptedTargets)
                  nE == Len(estimators)
                  row == report_df[n]
              IN /\ row.metrics.X = <<feature_cols[((n - 1) \div (nT * nE)) + 1]>>
                 /\ row.target = AcceptedTargets[(((n - 1) \div nE) % nT) + 1]
                 /\ row.metrics.y = row.target
                 /\ row.estimator_name = ClassName(estimators[((n - 1) % nE) + 1])
                 /\ row.metrics.model.feature_selection_method = "None"
        /\ pc = "done" =>
              Len(report_df) = Len(feature_cols) * Len(AcceptedTargets) * Len(estimators)

C7_Witness ==
    /\ strategy = "C"
    /\ pc = "done"
    /\ Len(feature_cols) = 2
    /\ Len(AcceptedTargets) = 2
    /\ Len(estimators) = 2
    /\ estimators[1] # estimators[2]
    /\ Len(report_df) = 8

\* ------------------------------------------------------------------------ C8
\* C8: the feature columns of every cross-validation, and the feature list of
\* every row of Strategies A and B, are accepted features.
C8_OnlyAcceptedFeatures ==
    Orchestration =>
        \A n \in DOMAIN report_df :
            /\ Range(report_df[n].metrics.X) \subseteq Range(AcceptedFeatures)
            /\ strategy \in {"A", "B"} =>
                  Range(report_df[n].features) \subseteq Range(AcceptedFeatures)

\* ------------------------------------------------------------------------ C9
\* The scale level the claim gives a storage type.
ClaimedScaleLevel(dtype) ==
    CASE dtype \in {"float64"} -> "numerical"
      [] dtype \in {"int64", "Int64"} -> "ordinal"
      [] dtype \in {"category", "category_bool"} -> "categorical"
      [] OTHER -> "None"

ClaimedGroup(level) ==
    SelectSeq(feature_cols, LAMBDA c : ClaimedScaleLevel(df[c]) = level)

\* C9: the selector accepts exactly the floating-point, integer and
\* categorical features, lists them in request order in the features frame,
\* and lists each in the group of its scale level and in no other.
C9_FeaturesByStorageType ==
    strategy = "selector" /\ pc = "done" =>
        /\ features = SelectSeq(feature_cols, LAMBDA c : ClaimedScaleLevel(df[c]) # "None")
        /\ feature_scale_levels.numerical = ClaimedGroup("numerical")
        /\ feature_scale_levels.ordinal = ClaimedGroup("ordinal")
        /\ feature_scale_levels.categorical = ClaimedGroup("categorical")

\* ----------------------------------------------------------------------- C10
\* The targets frame is in use: the selector has run.
TargetsSelected ==
    \/ strategy \in {"A", "B", "selector"} /\ pc # "call"
    \/ strategy = "C" /\ pc \in {"targets", "estimators"}

RowsOnlyOf(accepted) ==
    Orchestration => \A n \in DOMAIN report_df : report_df[n].target \in Range(accepted)

\* C10 as stated: the targets frame lists, in request order, exactly the
\* requested targets of boolean or integer storage type, and no row is of
\* another target.
C10_TargetsBooleanOrInteger ==
    LET claimed == SelectSeq(target_cols, LAMBDA c : df[c] \in {"bool", "int64", "Int64"})
    IN /\ TargetsSelected => targets = claimed
       /\ RowsOnlyOf(claimed)

\* C10, amended: the targets frame lists, in request order, exactly the
\* requested targets whose storage type is boolean, integer, or categorical
\* with boolean categories, and no row is of another target.
C10_TargetsBooleanLikeOrInteger ==
    LET claimed ==
            SelectSeq(target_cols,
                      LAMBDA c : df[c] \in {"bool", "int64", "Int64", "category_bool"})
    IN /\ TargetsSelected => targets = claimed
       /\ RowsOnlyOf(claimed)

C10_Witness ==
    /\ strategy = "A"
    /\ pc = "done"
    /\ target_cols = <<"c_object", "c_bool">>
    /\ targets = <<"c_bool">>
    /\ Len(report_df) = 2

\* ----------------------------------------------------------------------- C11
\* The scale level the selector has given a requested feature: the group that
\* lists it, "None" when no group does.
ScaleLevelGiven(col) ==
    IF col \in Range(feature_scale_levels.numerical) THEN "numerical"
    ELSE IF col \in Range(feature_scale_levels.ordinal) THEN "ordinal"
    ELSE IF col \in Range(feature_scale_levels.categorical) THEN "categorical"
    ELSE "None"

\* The scale level test_get_scale_level expects of a storage type.
TestedScaleLevel(dtype) ==
    CASE dtype = "float64" -> "numerical"
      [] dtype = "Int64" -> "ordinal"
      [] dtype \in {"category", "category_bool"} -> "categorical"
      [] dtype \in {"int64", "bool"} -> "None"

\* C11: get_scale_level gives a float column "numerical", a nullable Int64
\* column "ordinal", a categorical column "categorical", and a plain integer
\* column and a boolean column None.
C11_ScaleLevelAsTested ==
    strategy = "selector" /\ pc = "done" =>
        \A i \in DOMAIN feature_cols :
            df[feature_cols[i]] # "object" =>
                ScaleLevelGiven(feature_cols[i]) = TestedScaleLevel(df[feature_cols[i]])

\* ------------------------------------------------------- DataSet claims
\* A construction is under way or has ended: the object exists.
Constructing == ds_entry = "__init__" /\ ds_pc # "idle"

\* The columns the constructor was asked for, features first.
Requested == self.feature_cols \o self.target_cols

\* The columns _apply_scale_levels looks at.
InScope == Range(self.target_cols \o self.feature_cols)

ColumnsOf(rows) == [i \in DOMAIN rows |-> rows[i].Column]

\* ----------------------------------------------------------------------- C12
\* C12: over any sequence of constructions on one directory, the construction
\* that finds no scale_levels.csv writes one template with one row per
\* requested column and ends with SystemExit without a typed frame or views;
\* a construction that finds the file leaves it as it is and loads a registry
\* with one entry per row; the template is written at most once.
C12_TemplateOnceThenLoad ==
    /\ [](lookup_io.written <= 1)
    /\ [][(ds_entry = "__init__" /\ ds_pc = "read_scale_levels") =>
            IF ~lookup_file.exists
            THEN /\ lookup_file'.exists
                 /\ ColumnsOf(lookup_file'.rows) = Requested
                 /\ lookup_io'.written = lookup_io.written + 1
                 /\ ds_pc' = "exit"
                 /\ ds_error' = "SystemExit"
                 /\ ~self'.dataframe.set
                 /\ ~self'.features.set
                 /\ ~self'.targets.set
            ELSE /\ lookup_file' = lookup_file
                 /\ lookup_io'.written = lookup_io.written
                 /\ self'.scale_levels.set
                 /\ Len(self'.scale_levels.value.keys) = Len(lookup_file.rows)
                 /\ \A k \in DOMAIN lookup_file.rows :
                        self'.scale_levels.value.keys[k] = lookup_file.rows[k].Column
         ]_vars

\* ----------------------------------------------------------------------- C13
\* C13: the template has one row per requested column, in any order of the
\* request, and the row of column c carries the scale level derived from the
\* raw dtype of c itself.
C13_TemplateRowOfOwnDtype ==
    (Constructing /\ ds_pc = "exit") =>
        /\ ColumnsOf(lookup_file.rows) = Requested
        /\ \A k \in DOMAIN lookup_file.rows :
               lookup_file.rows[k].Scale_Level =
                   TemplateScaleLevel(
                       self._raw_dataframe.value.dtype[lookup_file.rows[k].Column])

\* ----------------------------------------------------------------------- C14
\* The columns in scope that the registry declares ordinal.
OrdinalInScope ==
    {c \in InScope \cap Range(self.scale_levels.value.keys) :
        self.scale_levels.value.details[c].scale_level = "ordinal"}

\* The typed column holds, for every row, the rank of the raw value in the
\* level order of the column.
RanksOf(c) ==
    LET raw == self._raw_dataframe.value
        typed == self.dataframe.value
        L == self.scale_levels.value.details[c].level_order
    IN /\ ~L.none
       /\ \A i \in DOMAIN raw.values[c] :
              /\ Occurs(raw.dtype[c], L.list, raw.values[c][i])
              /\ typed.values[c][i] \in 0..(Len(L.list) - 1)
              /\ L.list[typed.values[c][i] + 1] = raw.values[c][i]
              /\ \A j \in 1..typed.values[c][i] : L.list[j] # raw.values[c][i]

\* The typed column holds the raw values cast to integers.
CastOf(c) ==
    LET raw == self._raw_dataframe.value
        typed == self.dataframe.value
    IN \A i \in DOMAIN raw.values[c] :
          typed.values[c][i] =
              CASE raw.dtype[c] = "float64" -> raw.values[c][i].whole
                [] raw.dtype[c] = "bool" -> (IF raw.values[c][i] THEN 1 ELSE 0)
                [] OTHER -> raw.values[c][i]

\* C14 as stated: once the coercion of a frame has succeeded, every ordinal
\* column in scope holds the ranks of its values in its level order, so a
\* value outside the level order cannot have passed.
C14_OrdinalRanksOrFailure ==
    ds_pc = "done" => \A c \in OrdinalInScope : RanksOf(c)

\* C14 amended: an ordinal column in scope whose raw storage type is not
\* numeric holds the ranks of its values in its level order, and a value
\* outside the level order makes the coercion fail; a column whose raw storage
\* type is numeric is cast to int64 without being compared with the level
\* order.
C14_OrdinalRanksUnlessNumeric ==
    ds_pc = "done" =>
        \A c \in OrdinalInScope :
            /\ self.dataframe.value.dtype[c] = "int64"
            /\ IF is_numeric_dtype(self._raw_dataframe.value.dtype[c])
               THEN CastOf(c)
               ELSE RanksOf(c)

C14_Witness ==
    /\ ds_pc = "done"
    /\ "Grade" \in OrdinalInScope
    /\ "Score" \in OrdinalInScope
    /\ self.dataframe.value.values["Grade"] = <<1, 0>>
    /\ self.dataframe.value.values["Score"] = <<7, 4>>

\* ----------------------------------------------------------------------- C15
\* C15: applying the scale levels of a registry to the frame already typed by
\* that registry succeeds and yields the same storage types and values.
C15_ApplyIdempotent ==
    ds_entry = "_apply_scale_levels" =>
        /\ ds_pc = "raised" => ~self.dataframe.set
        /\ ds_pc = "reapplied" =>
               /\ self.dataframe.value.columns = self._raw_dataframe.value.columns
               /\ self.dataframe.value.dtype = self._raw_dataframe.value.dtype
               /\ self.dataframe.value.values = self._raw_dataframe.value.values

C15_Witness ==
    /\ ds_entry = "_apply_scale_levels"
    /\ ds_pc = "reapplied"
    /\ "Grade" \in OrdinalInScope
    /\ self.dataframe.value.dtype["Grade"] = "int64"
    /\ self.dataframe.value.values["Grade"] = <<1, 0>>

\* ----------------------------------------------------------------------- C16
\* C16: a construction from a path that ends neither in .csv nor in .xlsx
\* fails at the load step with an unsupported-format error, before
\* scale_levels.csv is read and without a template being written.
C16_UnsupportedFormatFailsAtLoad ==
    (Constructing /\ self.dataset_path.suffix \notin {".csv", ".xlsx"}) =>
        /\ ds_pc = "raised"
        /\ ds_error = "UnsupportedFormat"
        /\ ~lookup_io.read
        /\ ~lookup_io.wrote

\* ----------------------------------------------------------------------- C17
\* C17: with an explicit registry the construction completes with the typed
\* frame and the views coerced by that registry, and scale_levels.csv is
\* neither read nor written.
C17_ExplicitRegistryUsed ==
    (Constructing /\ scale_levels_arg.set /\ ds_pc \in {"done", "raised", "exit"}) =>
        /\ ds_pc = "done"
        /\ self.dataframe.set
        /\ self.features.set
        /\ self.targets.set
        /\ ~lookup_io.read
        /\ ~lookup_io.wrote

\* ----------------------------------------------------------------------- C18
\* C18: every call of a @configurable function passes the function, for
\* every keyword, the value given in that call if there is one and otherwise
\* the value the caller's config holds; a keyword of one call does not change
\* what a later call receives; without config the function receives the
\* caller's arguments.
C18_ExplicitElseConfig ==
    calls > 0 =>
        received = IF kwargs["config"] = "absent"
                   THEN kwargs
                   ELSE update(caller_config, kwargs)

\* ----------------------------------------------------------------------- C19
RowPaths(row) ==
    {row.roc_plot_path, row.feature_importance_plot_path, row.feature_importance_csv}

\* C19: the plot index is the number of rows appended so far; row k (from 0)
\* names roc_auc_k.png, feature_importance_k.png and feature_importance_k.csv;
\* no two rows name the same file; every file a row names is written.
C19_PlotIndexCountsRows ==
    Orchestration =>
        /\ plot_index = Len(report_df)
        /\ \A n \in DOMAIN report_df :
              /\ report_df[n].roc_plot_path = <<"roc_auc", n - 1, "png">>
              /\ report_df[n].feature_importance_plot_path =
                    <<"feature_importance", n - 1, "png">>
              /\ report_df[n].feature_importance_csv =
                    <<"feature_importance", n - 1, "csv">>
              /\ RowPaths(report_df[n]) \subseteq artifacts
        /\ \A m, n \in DOMAIN report_df :
              m # n => RowPaths(report_df[m]) \cap RowPaths(report_df[n]) = {}

C19_Witness ==
    /\ strategy = "C"
    /\ pc = "done"
    /\ Len(report_df) = 4
    /\ plot_index = 4
    /\ Cardinality(artifacts) = 12

\* ----------------------------------------------------------------------- C20
\* C20: two orchestration calls with the same output path never write into
\* the same output folder, so the report snapshots of an earlier call are
\* never replaced by a later call, whatever the time between them.
C20_FolderNeverReused ==
    /\ \A i, j \in DOMAIN runs : i # j => runs[i].folder # runs[j].folder
    /\ \A i \in DOMAIN runs :
          [folder |-> runs[i].folder, report_of |-> i] \in output_path

\* ----------------------------------------------------------------------- C21
\* The number of samples of a column that are equal to a value.
CountOf(col, value) ==
    Cardinality({i \in DOMAIN samples[col] : samples[col][i] = value})

\* C21: in every report row the negative count is the number of samples whose
\* target is 0 or False, the positive count the number whose target is 1 or
\* True, neither is negative, and they sum to the number of samples.
C21_ClassCounts ==
    Orchestration =>
        \A n \in DOMAIN report_df :
            LET row == report_df[n]
                boolean == df[row.target] = "bool"
            IN /\ row.negative_samples =
                      CountOf(row.target, IF boolean THEN FALSE ELSE 0)
               /\ row.positive_samples =
                      CountOf(row.target, IF boolean THEN TRUE ELSE 1)
               /\ row.negative_samples >= 0
               /\ row.positive_samples >= 0
               /\ row.negative_samples + row.positive_samples =
                      Len(samples[row.target])

====
